---------------------------- MODULE Spec2Model ----------------------------
(***************************************************************************)
(* A model of the speech-to-text orchestration service (SttService) and of *)
(* the gaia provider's session factory.                                     *)
(*                                                                         *)
(* Text is a sequence of one-character strings.  The token "N" stands for  *)
(* the literal '<noise>'.  Binary buffers are sequences of bytes (0..255). *)
(* Time is counted in milliseconds and advances in steps of TickMs.        *)
(***************************************************************************)
EXTENDS Integers, Sequences, FiniteSets, TLC

\* ------------------------------------------------------------------ bounds
MaxInputs == 4
TickMs == 1000
MaxPcmLen == 3
LongPcmLen == 300
MaxFrames == 2
MaxData == 3

\* ------------------------------------------------------- program constants
COMPLETION_DEBOUNCE_MS == 2000
AUDIO_SEND_INTERVAL == 5000
wavHeaderSize == 44
SAMPLE_RATE == 24000
BYTES_PER_SAMPLE == 2
CHANNELS == 2
CHUNK_SIZE == (SAMPLE_RATE * BYTES_PER_SAMPLE * CHANNELS) \div 10

Channels == {"Me", "Them"}
Providers == {"gemini", "openai", "gaia"}

\* the subprocess objects spawn returns: a first and a second one
ProcIds == {1, 2}

Min(a, b) == IF a < b THEN a ELSE b
Max(a, b) == IF a > b THEN a ELSE b

\* ------------------------------------------------------------------- text
IsSpace(c) == c = " "

RECURSIVE TrimStart(_)
TrimStart(s) ==
    IF s = <<>> THEN <<>>
    ELSE IF IsSpace(Head(s)) THEN TrimStart(Tail(s)) ELSE s

RECURSIVE TrimEnd(_)
TrimEnd(s) ==
    IF s = <<>> THEN <<>>
    ELSE IF IsSpace(s[Len(s)]) THEN TrimEnd(SubSeq(s, 1, Len(s) - 1)) ELSE s

\* String.prototype.trim
Trim(s) == TrimEnd(TrimStart(s))

IncludesMarkerNever(s) == FALSE

\* text.includes('vq_lbr_audio_'): the marker is the token "M"
IncludesMarker(s) == \E i \in 1..Len(s) : s[i] = "M"

\* index of the first close after position i, or 0
RECURSIVE FirstFrom(_, _, _)
FirstFrom(s, i, c) ==
    IF i > Len(s) THEN 0
    ELSE IF s[i] = c THEN i ELSE FirstFrom(s, i + 1, c)

\* s.replace(/\[[^\]]*\]/g, '') for the pair (open, close), scanning from i
RECURSIVE StripFrom(_, _, _, _)
StripFrom(s, i, open, close) ==
    IF i > Len(s) THEN <<>>
    ELSE IF s[i] = open /\ FirstFrom(s, i + 1, close) # 0
         THEN StripFrom(s, FirstFrom(s, i + 1, close) + 1, open, close)
         ELSE <<s[i]>> \o StripFrom(s, i + 1, open, close)

CleanTextBracketsOnly(s) == Trim(StripFrom(s, 1, "[", "]"))

\* the three replace calls of the batch result handling
CleanText(s) ==
    LET noBrackets == StripFrom(s, 1, "[", "]")
        noParens == StripFrom(noBrackets, 1, "(", ")")
    IN  Trim(noParens)

\* ------------------------------------------------------------------ bytes
Byte == 0..255

\* Buffer.writeUInt32LE(v, off): the four bytes written
U32LE(v) == << v % 256, (v \div 256) % 256, (v \div 65536) % 256,
               (v \div 16777216) % 256 >>

\* Buffer.writeUInt16LE(v, off): the two bytes written
U16LE(v) == << v % 256, (v \div 256) % 256 >>

\* Buffer.readUInt32LE(off), off counted from 0
ReadU32LE(b, off) ==
    b[off + 1] + 256 * b[off + 2] + 65536 * b[off + 3] + 16777216 * b[off + 4]

\* Buffer.readUInt16LE(off), off counted from 0
ReadU16LE(b, off) == b[off + 1] + 256 * b[off + 2]

\* Buffer.readInt16LE(off): two's complement
ReadInt16LE(b, off) ==
    LET u == ReadU16LE(b, off) IN IF u >= 32768 THEN u - 65536 ELSE u

\* Buffer.writeInt16LE(v, off): the two bytes written
Int16LE(v) == U16LE((v + 65536) % 65536)

\* Buffer.write('RIFF', off) and the like: ASCII codes
AsciiRIFF == <<82, 73, 70, 70>>
AsciiWAVE == <<87, 65, 86, 69>>
AsciiFmt == <<102, 109, 116, 32>>
AsciiData == <<100, 97, 116, 97>>

\* options.x || default
OrDefault(v, d) == IF v = 0 THEN d ELSE v

\* Buffer.alloc(n): n zero bytes
Alloc(n) == [i \in 1..n |-> 0]

\* a write of bytes at offset off (counted from 0) into buffer b
WriteAt(b, off, bytes) ==
    [i \in 1..Len(b) |->
        IF i > off /\ i <= off + Len(bytes) THEN bytes[i - off] ELSE b[i]]

\* the writes of pcmToWav as (offset, bytes) pairs, in program order
WavWrites(pcmBuffer, numChannels, sampleRate, bitDepth, byteRate, blockAlign) ==
    << <<0, AsciiRIFF>>,
       <<4, U32LE(36 + Len(pcmBuffer))>>,
       <<8, AsciiWAVE>>,
       <<12, AsciiFmt>>,
       <<16, U32LE(16)>>,
       <<20, U16LE(1)>>,
       <<22, U16LE(numChannels)>>,
       <<24, U32LE(sampleRate)>>,
       <<28, U32LE(byteRate)>>,
       <<32, U16LE(blockAlign)>>,
       <<34, U16LE(bitDepth)>>,
       <<36, AsciiData>>,
       <<40, U32LE(Len(pcmBuffer))>>,
       <<44, pcmBuffer>> >>

RECURSIVE ApplyWrites(_, _)
ApplyWrites(b, ws) ==
    IF ws = <<>> THEN b
    ELSE ApplyWrites(WriteAt(b, Head(ws)[1], Head(ws)[2]), Tail(ws))

\* a slip: the data chunk length written over the block align field's place
pcmToWavDataSizeAt32(pcmBuffer, options) ==
    LET numChannels == OrDefault(options.numChannels, 1)
        sampleRate == OrDefault(options.sampleRate, 24000)
        bitDepth == OrDefault(options.bitDepth, 16)
        byteRate == (sampleRate * numChannels * bitDepth) \div 8
        blockAlign == (numChannels * bitDepth) \div 8
        ws == WavWrites(pcmBuffer, numChannels, sampleRate, bitDepth,
                        byteRate, blockAlign)
    IN  ApplyWrites(Alloc(wavHeaderSize + Len(pcmBuffer)),
                    [ws EXCEPT ![13] = <<32, U32LE(Len(pcmBuffer))>>])

pcmToWav(pcmBuffer, options) ==
    LET numChannels == OrDefault(options.numChannels, 1)
        sampleRate == OrDefault(options.sampleRate, 24000)
        bitDepth == OrDefault(options.bitDepth, 16)
        byteRate == (sampleRate * numChannels * bitDepth) \div 8
        blockAlign == (numChannels * bitDepth) \div 8
    IN  ApplyWrites(Alloc(wavHeaderSize + Len(pcmBuffer)),
                    WavWrites(pcmBuffer, numChannels, sampleRate, bitDepth,
                              byteRate, blockAlign))

\* the options object of the two batch timer callbacks
BatchWavOptions == [numChannels |-> 1, sampleRate |-> 24000, bitDepth |-> 16]

convertStereoToMonoRight(stereoBuffer) ==
    LET samples == Len(stereoBuffer) \div 4
    IN  [j \in 1..(samples * 2) |->
            LET i == (j - 1) \div 2
                rightSample == ReadInt16LE(stereoBuffer, i * 4 + 2)
            IN  Int16LE(rightSample)[((j - 1) % 2) + 1]]

convertStereoToMono(stereoBuffer) ==
    LET samples == Len(stereoBuffer) \div 4
    IN  [j \in 1..(samples * 2) |->
            LET i == (j - 1) \div 2
                leftSample == ReadInt16LE(stereoBuffer, i * 4)
            IN  Int16LE(leftSample)[((j - 1) % 2) + 1]]

\* ------------------------------------------------------------------ state
VARIABLES
    modelInfo,          \* this.modelInfo: "null" or the provider name
    sttSession,         \* this.mySttSession / this.theirSttSession
    currentUtterance,   \* this.myCurrentUtterance / this.theirCurrentUtterance
    completionBuffer,   \* this.myCompletionBuffer / this.theirCompletionBuffer
    completionTimer,    \* this.myCompletionTimer / this.theirCompletionTimer
    audioBuffer,        \* this.myAudioBuffer / this.theirAudioBuffer
    audioTimer,         \* this.myAudioTimer / this.theirAudioTimer
    scheduled,          \* the runtime's pending timeouts (setTimeout)
    inflight,           \* transcribeAudio calls awaited by a batch callback
    initPc,             \* where initializeSttSessions is suspended
    closePc,            \* where closeSessions is suspended
    handlersLive,       \* a streaming provider session holds the onmessage callbacks
    emitted,            \* what the last step sent to the renderer / callbacks
    last,               \* the last step: operation, channel, outcome
    turnFrags,          \* fragments merged on a channel since its last final
    quiet,              \* ms since the last fragment merged on a channel
    sinceFlush,         \* what the flush calls since the last merged fragment did
    ingested,           \* audio bytes of the channel's open batch window
    windowAge,          \* ms since the batch window was opened
    inputs,             \* number of external calls and messages so far
    pcmArg, wavRes,     \* argument and result of a pcmToWav call
    stereoArg, monoRes, \* argument and result of a convertStereoToMono call
    fnPc,               \* "idle", or the function that returned
    systemAudioProc,    \* this.systemAudioProc: a subprocess object, 0 for null
    procState,          \* per subprocess object: "none", "running", "killed"
                        \* (signalled, not yet gone), "exited", "failed" (no pid)
    capturePc,          \* "idle", or where startMacOSAudioCapture is suspended
    spawned,            \* number of spawn calls so far
    captureAudioBuffer, \* per subprocess: audioBuffer of its data handler
    pendingSends,       \* per subprocess: handlers suspended at await sendRealtimeInput
    forwardedChunks,    \* per subprocess: the chunks sliced off and forwarded, in order
    streamLen,          \* per subprocess: bytes it has written so far
    dataEvents          \* number of stdout data events so far

serviceVars == << modelInfo, sttSession, currentUtterance, completionBuffer,
                  completionTimer, audioBuffer, audioTimer, scheduled, inflight,
                  initPc, closePc, handlersLive >>
ghostVars == << emitted, last, turnFrags, quiet, sinceFlush, ingested,
                windowAge, inputs >>
fnVars == << pcmArg, wavRes, stereoArg, monoRes, fnPc >>
captureProcVars == << systemAudioProc, procState, capturePc, spawned >>
captureDataVars == << captureAudioBuffer, pendingSends, forwardedChunks, streamLen,
                      dataEvents >>
captureVars == << captureProcVars, captureDataVars >>
vars == << serviceVars, ghostVars, fnVars, captureVars >>

\* ---------------------------------------------------------------- handles
NullSession ==
    [present |-> FALSE, provider |-> "none", sendRealtimeInput |-> FALSE,
     transcribeAudio |-> FALSE]

\* the object gaia's createSTT returns: transcribe, transcribeAudio, close
GaiaHandle ==
    [present |-> TRUE, provider |-> "gaia", sendRealtimeInput |-> FALSE,
     transcribeAudio |-> TRUE]

\* a handle the factory returns for a streaming provider
StreamHandle(p, canSend) ==
    [present |-> TRUE, provider |-> p, sendRealtimeInput |-> canSend,
     transcribeAudio |-> FALSE]

\* the pairs (mine, theirs) the two createSTT calls may resolve with
HandlePairs(p) ==
    { <<StreamHandle(p, TRUE), StreamHandle(p, TRUE)>>,
      <<StreamHandle(p, TRUE), StreamHandle(p, FALSE)>>,
      <<StreamHandle(p, FALSE), StreamHandle(p, TRUE)>> }

\* isSessionActive()
isSessionActive == sttSession["Me"].present /\ sttSession["Them"].present

\* ----------------------------------------------------------------- timers
TimerIds == 1..8

UsedIds ==
    {t.id : t \in scheduled}
        \cup {completionTimer[c] : c \in Channels}
        \cup {audioTimer[c] : c \in Channels}

\* the handle setTimeout returns: one no live or remembered handle equals
FreshId == CHOOSE i \in TimerIds : i \notin UsedIds /\ \A j \in TimerIds : j < i => j \in UsedIds

\* clearTimeout(handle)
ClearTimeout(sched, id) == {t \in sched : t.id # id}

SetTimeoutForLocal(sched, id, kind, ch, ms) ==
    sched \cup {[id |-> id, kind |-> kind, ch |-> "Me", rem |-> ms]}

\* setTimeout(callback, ms)
SetTimeout(sched, id, kind, ch, ms) ==
    sched \cup {[id |-> id, kind |-> kind, ch |-> ch, rem |-> ms]}

\* ----------------------------------------------------------------- events
SttUpdateNeverPartial(ch, text, partial) ==
    [kind |-> "stt-update", speaker |-> ch, text |-> text, isPartial |-> FALSE]

\* sendToRenderer('stt-update', {...})
SttUpdate(ch, text, partial) ==
    [kind |-> "stt-update", speaker |-> ch, text |-> text, isPartial |-> partial]

\* console.error of a message's error field, or of a caught exception
ErrorLog(ch) ==
    [kind |-> "console.error", speaker |-> ch, text |-> <<>>, isPartial |-> FALSE]

\* if (message.error) console.error(...)
LogError(ch, c, m) == IF m.error THEN [c EXCEPT !.out = @ \o <<ErrorLog(ch)>>] ELSE c

\* this.onTranscriptionComplete(speaker, text)
CompleteCb(ch, text) ==
    [kind |-> "complete", speaker |-> ch, text |-> text, isPartial |-> FALSE]

Finals(out, ch) ==
    SelectSeq(out, LAMBDA e : e.kind = "stt-update" /\ e.speaker = ch /\ ~e.isPartial)

Partials(out, ch) ==
    SelectSeq(out, LAMBDA e : e.kind = "stt-update" /\ e.speaker = ch /\ e.isPartial)

\* --------------------------------------------------------------- messages
NoMessage ==
    [turnComplete |-> FALSE, inputText |-> <<>>, type |-> "none",
     text |-> <<>>, error |-> FALSE]

\* serverContent.turnComplete / serverContent.inputTranscription.text
GeminiTexts == { <<>>, <<" ">>, <<"a">>, <<" ", "b">>, <<" ", "N">> }

GeminiMessages ==
    { [NoMessage EXCEPT !.inputText = t] : t \in GeminiTexts }
        \cup { [NoMessage EXCEPT !.turnComplete = TRUE],
               [NoMessage EXCEPT !.turnComplete = TRUE, !.inputText = <<"a">>,
                                 !.error = TRUE] }

\* type, and transcript || delta || alternatives[0].transcript || ''
DeltaTexts == { <<>>, <<"a">>, <<"M", "a">> }
CompletedTexts == { <<>>, <<" ">>, <<" ", "b">> }

DeltaMessages ==
    { [NoMessage EXCEPT !.type = "delta", !.text = t] : t \in DeltaTexts }
        \cup { [NoMessage EXCEPT !.type = "completed", !.text = t] : t \in CompletedTexts }

Messages == GeminiMessages \cup DeltaMessages \cup {[NoMessage EXCEPT !.error = TRUE]}

\* ------------------------------------------------------------ the debouncer
\* a channel's debouncer state threaded through a handler: completion
\* buffer, current utterance, timer handle, the pending timeouts, the events
\* sent so far and the fragment merged (<<>> when none)
Chan(ch) ==
    [buf |-> completionBuffer[ch], utt |-> currentUtterance[ch],
     timer |-> completionTimer[ch], sched |-> scheduled, out |-> <<>>,
     frag |-> <<>>, merged |-> FALSE]

FinalTextBufferOnly(buf, utt) == Trim(buf)

\* (this.myCompletionBuffer + this.myCurrentUtterance).trim()
FinalText(buf, utt) == Trim(buf \o utt)

flushCompletionKeepBuffer(mi, ch, c) ==
    LET finalText == FinalText(c.buf, c.utt)
    IN  IF mi = "null" \/ finalText = <<>> THEN c
        ELSE [c EXCEPT !.out = @ \o << CompleteCb(ch, finalText),
                                       SttUpdate(ch, finalText, FALSE) >>,
                       !.timer = 0,
                       !.utt = <<>>]

flushCompletionNoTrim(mi, ch, c) ==
    LET finalText == c.buf \o c.utt
    IN  IF mi = "null" \/ finalText = <<>> THEN c
        ELSE [c EXCEPT !.out = @ \o << CompleteCb(ch, finalText),
                                       SttUpdate(ch, finalText, FALSE) >>,
                       !.buf = <<>>,
                       !.timer = 0,
                       !.utt = <<>>]

\* flushMyCompletion / flushTheirCompletion
flushCompletion(mi, ch, c) ==
    LET finalText == FinalText(c.buf, c.utt)
    IN  IF mi = "null" \/ finalText = <<>> THEN c
        ELSE [c EXCEPT !.out = @ \o << CompleteCb(ch, finalText),
                                       SttUpdate(ch, finalText, FALSE) >>,
                       !.buf = <<>>,
                       !.timer = 0,
                       !.utt = <<>>]

DebouncedBufferNoSeparator(mi, buf, text) == buf \o text

\* the buffer after debounceMyCompletion's append
DebouncedBuffer(mi, buf, text) ==
    IF mi = "gemini" THEN buf \o text
    ELSE buf \o (IF buf # <<>> THEN <<" ">> ELSE <<>>) \o text

\* debounceMyCompletion / debounceTheirCompletion
debounceCompletion(mi, ch, c, text) ==
    LET sched1 == IF c.timer # 0 THEN ClearTimeout(c.sched, c.timer) ELSE c.sched
    IN  [c EXCEPT !.buf = DebouncedBuffer(mi, c.buf, text),
                  !.sched = SetTimeout(sched1, FreshId, "completion", ch,
                                       COMPLETION_DEBOUNCE_MS),
                  !.timer = FreshId]

IsNoiseNever(textChunk) == FALSE

\* !textChunk.trim() || textChunk.trim() === '<noise>'
IsNoise(textChunk) == Trim(textChunk) = <<>> \/ Trim(textChunk) = <<"N">>

\* the gemini branch of handleMyMessage / handleTheirMessage
geminiMessage(mi, ch, c, m) ==
    IF m.turnComplete
    THEN IF c.timer # 0
         THEN flushCompletion(mi, ch, [c EXCEPT !.sched = ClearTimeout(@, c.timer)])
         ELSE c
    ELSE IF m.inputText = <<>> THEN c
    ELSE IF IsNoise(m.inputText) THEN c
    ELSE LET d == debounceCompletion(mi, ch, c, m.inputText)
         IN  LogError(ch, [d EXCEPT !.out = @ \o <<SttUpdate(ch, d.buf, TRUE)>>,
                                    !.frag = m.inputText,
                                    !.merged = TRUE], m)

\* the delta / completed branch of handleMyMessage / handleTheirMessage
deltaMessage(mi, ch, c, m) ==
    IF m.type = "delta"
    THEN LET utt1 == c.utt \o m.text
             continuousText ==
                 c.buf \o (IF c.buf # <<>> THEN <<" ">> ELSE <<>>) \o utt1
         IN  LogError(ch,
                 [c EXCEPT !.sched = IF c.timer # 0 THEN ClearTimeout(@, c.timer) ELSE @,
                           !.timer = 0,
                           !.utt = utt1,
                           !.out = IF m.text # <<>> /\ ~IncludesMarker(m.text)
                                   THEN @ \o <<SttUpdate(ch, continuousText, TRUE)>>
                                   ELSE @,
                           !.frag = m.text,
                           !.merged = m.text # <<>>], m)
    ELSE IF m.type = "completed" /\ m.text # <<>> /\ Trim(m.text) # <<>>
    THEN LET d == debounceCompletion(mi, ch, [c EXCEPT !.utt = <<>>], Trim(m.text))
         IN  LogError(ch, [d EXCEPT !.frag = Trim(m.text), !.merged = TRUE], m)
    ELSE LogError(ch, c, m)

\* handleMyMessage / handleTheirMessage
handleMessage(mi, ch, c, m) ==
    IF mi = "null" THEN c
    ELSE IF mi = "gemini" THEN geminiMessage(mi, ch, c, m)
    ELSE deltaMessage(mi, ch, c, m)


\* ------------------------------------------------------------ ghost state
Step(op, ch, kind) == [op |-> op, ch |-> ch, kind |-> kind]

\* what a message is to the handler of the current provider
MessageKind(mi, m) ==
    IF mi = "null" THEN "stale"
    ELSE IF mi = "gemini"
         THEN IF m.turnComplete THEN "turnComplete"
              ELSE IF m.inputText = <<>> THEN "none"
              ELSE IF IsNoise(m.inputText) THEN "noise"
              ELSE "transcription"
    ELSE IF m.type = "delta" THEN "delta"
    ELSE IF m.type = "completed" THEN
              IF Trim(m.text) # <<>> THEN "completed" ELSE "emptyCompleted"
    ELSE "none"

\* the turn-complete branch reaches its flush call
FlushReached(mi, ch, m) ==
    mi = "gemini" /\ m.turnComplete /\ completionTimer[ch] # 0

QuietCap == COMPLETION_DEBOUNCE_MS + TickMs
WindowCap == AUDIO_SEND_INTERVAL + TickMs

\* what the flush calls since the last merged fragment did, after one more
\* that sent the events out: "no" call yet, a "final", or "nothing"
Flushed(ch, out) ==
    IF Len(Finals(out, ch)) > 0 THEN "final"
    ELSE IF sinceFlush[ch] = "no" THEN "nothing"
    ELSE sinceFlush[ch]

\* the fragments of a channel's turn after a handler ran
FragsAfter(ch, c) ==
    IF Len(Finals(c.out, ch)) > 0 THEN <<>>
    ELSE IF c.merged THEN Append(turnFrags[ch], c.frag)
    ELSE turnFrags[ch]

\* the assignment of a threaded debouncer state back to the fields
StoreChan(ch, c) ==
    /\ completionBuffer' = [completionBuffer EXCEPT ![ch] = c.buf]
    /\ currentUtterance' = [currentUtterance EXCEPT ![ch] = c.utt]
    /\ completionTimer' = [completionTimer EXCEPT ![ch] = c.timer]
    /\ scheduled' = c.sched
    /\ emitted' = c.out
    /\ turnFrags' = [turnFrags EXCEPT ![ch] = FragsAfter(ch, c)]
    /\ quiet' = [quiet EXCEPT ![ch] =
                    IF c.merged \/ FragsAfter(ch, c) = <<>> THEN 0 ELSE @]

\* --------------------------------------------------------------- Init
ServiceConstructed ==
    /\ modelInfo = "null"
    /\ sttSession = [ch \in Channels |-> NullSession]
    /\ currentUtterance = [ch \in Channels |-> <<>>]
    /\ completionBuffer = [ch \in Channels |-> <<>>]
    /\ completionTimer = [ch \in Channels |-> 0]
    /\ audioBuffer = [ch \in Channels |-> <<>>]
    /\ audioTimer = [ch \in Channels |-> 0]
    /\ scheduled = {}
    /\ inflight = <<>>
    /\ initPc = "idle"
    /\ closePc = "idle"
    /\ handlersLive = FALSE

GhostInit ==
    /\ emitted = <<>>
    /\ last = Step("new", "-", "-")
    /\ turnFrags = [ch \in Channels |-> <<>>]
    /\ quiet = [ch \in Channels |-> 0]
    /\ sinceFlush = [ch \in Channels |-> "no"]
    /\ ingested = [ch \in Channels |-> <<>>]
    /\ windowAge = [ch \in Channels |-> 0]
    /\ inputs = 0

FnIdle ==
    /\ pcmArg = [pcmBuffer |-> <<>>, options |-> BatchWavOptions]
    /\ wavRes = <<>>
    /\ stereoArg = <<>>
    /\ monoRes = <<>>
    /\ fnPc = "idle"

\* no capture subprocess was started
CaptureIdle ==
    /\ systemAudioProc = 0
    /\ procState = [p \in ProcIds |-> "none"]
    /\ capturePc = "idle"
    /\ spawned = 0
    /\ captureAudioBuffer = [p \in ProcIds |-> <<>>]
    /\ pendingSends = [p \in ProcIds |-> 0]
    /\ forwardedChunks = [p \in ProcIds |-> <<>>]
    /\ streamLen = [p \in ProcIds |-> 0]
    /\ dataEvents = 0

Init == ServiceConstructed /\ GhostInit /\ FnIdle /\ CaptureIdle

\* ------------------------------------------------- initializeSttSessions
\* The caller serialises the lifecycle calls: initializeSttSessions is
\* called on a closed service, and not while closeSessions is running.
InitializeSttSessions ==
    /\ initPc = "idle" /\ closePc = "idle"
    /\ modelInfo = "null" /\ ~sttSession["Me"].present /\ ~sttSession["Them"].present
    /\ inputs < MaxInputs
    /\ inputs' = inputs + 1
    /\ initPc' = "getCurrentModelInfo"
    /\ last' = Step("initialize", "-", "called")
    /\ emitted' = <<>>
    /\ UNCHANGED << modelInfo, sttSession, currentUtterance, completionBuffer,
                    completionTimer, audioBuffer, audioTimer, scheduled, inflight,
                    closePc, handlersLive, turnFrags, quiet, sinceFlush, ingested,
                    windowAge, fnVars, captureVars >>

\* getCurrentModelInfo resolved with mi ("null": none, or one without apiKey)
InitModelInfo(mi) ==
    /\ initPc = "getCurrentModelInfo"
    /\ emitted' = <<>>
    /\ IF mi = "null"
       THEN /\ initPc' = "idle"
            /\ last' = Step("initialize", "-", "noModelInfo")
            /\ UNCHANGED << modelInfo, sttSession, handlersLive >>
       ELSE IF mi = "gaia"
       THEN \* gaia's createSTT resolves at once and the capability check is skipped
            /\ modelInfo' = mi
            /\ sttSession' = [ch \in Channels |-> GaiaHandle]
            /\ initPc' = "idle"
            /\ last' = Step("initialize", "-", "ok")
            /\ UNCHANGED handlersLive
       ELSE /\ modelInfo' = mi
            /\ initPc' = "createSTT"
            /\ last' = Step("initialize", "-", "creating")
            /\ UNCHANGED << sttSession, handlersLive >>
    /\ UNCHANGED << currentUtterance, completionBuffer, completionTimer,
                    audioBuffer, audioTimer, scheduled, inflight, closePc,
                    turnFrags, quiet, sinceFlush, ingested, windowAge, inputs, fnVars, captureVars >>

\* one of the two createSTT calls rejected
InitCreateRejected ==
    /\ initPc = "createSTT"
    /\ initPc' = "idle"
    /\ last' = Step("initialize", "-", "createRejected")
    /\ emitted' = <<>>
    /\ UNCHANGED << modelInfo, sttSession, currentUtterance, completionBuffer,
                    completionTimer, audioBuffer, audioTimer, scheduled, inflight,
                    closePc, handlersLive, turnFrags, quiet, sinceFlush, ingested,
                    windowAge, inputs, fnVars, captureVars >>

CapabilityCheckFailsMineOnly(mi, mine, theirs) ==
    mi # "gaia" /\ ~mine.sendRealtimeInput

\* the capability check after Promise.all
CapabilityCheckFails(mi, mine, theirs) ==
    mi # "gaia" /\ (~mine.sendRealtimeInput \/ ~theirs.sendRealtimeInput)

\* both createSTT calls resolved, with handles mine and theirs
InitCreateResolved(mine, theirs) ==
    /\ initPc = "createSTT"
    /\ sttSession' = [sttSession EXCEPT !["Me"] = mine, !["Them"] = theirs]
    /\ initPc' = "idle"
    /\ last' = IF CapabilityCheckFails(modelInfo, mine, theirs)
               THEN Step("initialize", "-", "noSendRealtimeInput")
               ELSE Step("initialize", "-", "ok")
    /\ handlersLive' = TRUE
    /\ emitted' = <<>>
    /\ UNCHANGED << modelInfo, currentUtterance, completionBuffer,
                    completionTimer, audioBuffer, audioTimer, scheduled, inflight,
                    closePc, turnFrags, quiet, sinceFlush, ingested,
                    windowAge, inputs, fnVars, captureVars >>

\* ------------------------------------------------------ provider messages
\* a provider session delivers message m to the onmessage callback of
\* channel ch (sessions deliver messages once createSTT has resolved, and may
\* go on after closeSessions)
HandleMessage(ch, m) ==
    /\ handlersLive
    /\ inputs < MaxInputs
    /\ inputs' = inputs + 1
    /\ LET c == handleMessage(modelInfo, ch, Chan(ch), m)
       IN  /\ StoreChan(ch, c)
           /\ last' = Step("message", ch, MessageKind(modelInfo, m))
           /\ sinceFlush' = [sinceFlush EXCEPT ![ch] =
                   IF c.merged THEN "no"
                   ELSE IF FlushReached(modelInfo, ch, m) THEN Flushed(ch, c.out)
                   ELSE @]
    /\ UNCHANGED << modelInfo, sttSession, audioBuffer, audioTimer, inflight,
                    initPc, closePc, handlersLive, ingested, windowAge,
                    fnVars, captureVars >>

\* flushMyCompletion / flushTheirCompletion called directly
FlushCompletion(ch) ==
    /\ inputs < MaxInputs
    /\ inputs' = inputs + 1
    /\ LET c == flushCompletion(modelInfo, ch, Chan(ch))
       IN  /\ StoreChan(ch, c)
           /\ sinceFlush' = [sinceFlush EXCEPT ![ch] = Flushed(ch, c.out)]
    /\ last' = Step("flush", ch, IF sinceFlush[ch] = "no" THEN "first" ELSE "again")
    /\ UNCHANGED << modelInfo, sttSession, audioBuffer, audioTimer, inflight,
                    initPc, closePc, handlersLive, ingested, windowAge,
                    fnVars, captureVars >>

\* the completion timer of channel t.ch expires: its callback flushes
CompletionTimerFires(t) ==
    /\ t \in scheduled /\ t.kind = "completion" /\ t.rem = 0
    /\ LET c == flushCompletion(modelInfo, t.ch,
                                [Chan(t.ch) EXCEPT !.sched = scheduled \ {t}])
       IN  /\ StoreChan(t.ch, c)
           /\ sinceFlush' = [sinceFlush EXCEPT ![t.ch] = Flushed(t.ch, c.out)]
    /\ last' = Step("completionTimer", t.ch, "fired")
    /\ UNCHANGED << modelInfo, sttSession, audioBuffer, audioTimer, inflight,
                    initPc, closePc, handlersLive, ingested,
                    windowAge, inputs, fnVars, captureVars >>


\* ------------------------------------------------------------ audio ingest
AudioChunks == { <<>>, <<7>>, <<8, 9>> }

ConcatLastOnly(list) == IF list = <<>> THEN <<>> ELSE list[Len(list)]

\* Buffer.concat(list)
RECURSIVE Concat(_)
Concat(list) == IF list = <<>> THEN <<>> ELSE Head(list) \o Concat(Tail(list))

\* the gaia branch of sendAudioContent / sendSystemAudioContent: the timer
\* handle and the pending timeouts after the push
BatchArmAlways(ch) ==
    [timer |-> FreshId,
     sched |-> SetTimeout(scheduled, FreshId, "audio", ch, AUDIO_SEND_INTERVAL)]

BatchArm(ch) ==
    IF audioTimer[ch] = 0
    THEN [timer |-> FreshId,
          sched |-> SetTimeout(scheduled, FreshId, "audio", ch, AUDIO_SEND_INTERVAL)]
    ELSE [timer |-> audioTimer[ch], sched |-> scheduled]

\* sendAudioContent (ch = "Me") / sendSystemAudioContent (ch = "Them")
SendAudioContent(ch, data) ==
    /\ inputs < MaxInputs
    /\ inputs' = inputs + 1
    /\ emitted' = <<>>
    /\ IF ~sttSession[ch].present \/ modelInfo = "null"
       THEN /\ last' = Step("audio", ch, "notActive")
            /\ UNCHANGED << audioBuffer, audioTimer, scheduled, ingested, windowAge >>
       ELSE IF modelInfo = "gaia"
       THEN /\ audioBuffer' = [audioBuffer EXCEPT ![ch] = Append(@, data)]
            /\ audioTimer' = [audioTimer EXCEPT ![ch] = BatchArm(ch).timer]
            /\ scheduled' = BatchArm(ch).sched
            /\ ingested' = [ingested EXCEPT ![ch] = @ \o data]
            /\ windowAge' = [windowAge EXCEPT ![ch] =
                                IF audioBuffer[ch] = <<>> THEN 0 ELSE @]
            /\ last' = Step("audio", ch,
                            IF audioBuffer[ch] = <<>> THEN "opened" ELSE "added")
       ELSE /\ last' = Step("audio", ch,
                            IF sttSession[ch].sendRealtimeInput
                            THEN "sendRealtimeInput" ELSE "notAFunction")
            /\ UNCHANGED << audioBuffer, audioTimer, scheduled, ingested, windowAge >>
    /\ UNCHANGED << modelInfo, sttSession, currentUtterance, completionBuffer,
                    completionTimer, inflight, initPc, closePc, handlersLive,
                    turnFrags, quiet, sinceFlush, fnVars, captureVars >>

BatchSubmitWhenIdle(ch, audioToSend) ==
    IF Len(audioToSend) > 0 /\ sttSession[ch].present /\ sttSession[ch].transcribeAudio
          /\ \A i \in 1..Len(inflight) : inflight[i].ch # ch
    THEN Append(inflight, [ch |-> ch,
                           wav |-> pcmToWav(audioToSend, BatchWavOptions)])
    ELSE inflight

\* the transcribeAudio calls pending after a batch callback took audioToSend
BatchSubmit(ch, audioToSend) ==
    IF Len(audioToSend) > 0 /\ sttSession[ch].present /\ sttSession[ch].transcribeAudio
    THEN Append(inflight, [ch |-> ch,
                           wav |-> pcmToWav(audioToSend, BatchWavOptions)])
    ELSE inflight

\* the batch timer of channel t.ch expires: the callback up to its await
AudioTimerFires(t) ==
    /\ t \in scheduled /\ t.kind = "audio" /\ t.rem = 0
    /\ scheduled' = scheduled \ {t}
    /\ audioBuffer' = [audioBuffer EXCEPT ![t.ch] = <<>>]
    /\ audioTimer' = [audioTimer EXCEPT ![t.ch] = 0]
    /\ inflight' = BatchSubmit(t.ch, Concat(audioBuffer[t.ch]))
    /\ ingested' = [ingested EXCEPT ![t.ch] = <<>>]
    /\ windowAge' = [windowAge EXCEPT ![t.ch] = 0]
    /\ emitted' = <<>>
    /\ last' = Step("audioTimer", t.ch,
                    IF inflight' # inflight THEN "submitted" ELSE "nothing")
    /\ UNCHANGED << modelInfo, sttSession, currentUtterance, completionBuffer,
                    completionTimer, initPc, closePc, handlersLive, turnFrags,
                    quiet, sinceFlush, inputs, fnVars, captureVars >>

ResultTexts == { <<>>, <<" ">>, <<"a">>, <<"[", "x", "]">>, <<"a", "(", "x", ")">> }

RemoveAtKeepsCall(q, i) == q

\* the pending calls without the i-th, which settled
RemoveAt(q, i) == SubSeq(q, 1, i - 1) \o SubSeq(q, i + 1, Len(q))

\* the events of the batch result handling for a result text
ResultEvents(ch, text) ==
    IF Trim(text) # <<>>
    THEN << CompleteCb(ch, Trim(text)), SttUpdate(ch, Trim(CleanText(text)), FALSE) >>
    ELSE <<>>

\* the i-th pending transcribeAudio call resolves with {text}
TranscribeResolved(i, text) ==
    /\ i \in 1..Len(inflight)
    /\ LET ch == inflight[i].ch
           hit == Trim(text) # <<>>
       IN  /\ emitted' = ResultEvents(ch, text)
           /\ completionBuffer' = [completionBuffer EXCEPT ![ch] = IF hit THEN <<>> ELSE @]
           /\ currentUtterance' = [currentUtterance EXCEPT ![ch] = IF hit THEN <<>> ELSE @]
           /\ turnFrags' = [turnFrags EXCEPT ![ch] = IF hit THEN <<>> ELSE @]
           /\ quiet' = [quiet EXCEPT ![ch] = IF hit THEN 0 ELSE @]
           /\ last' = Step("transcribed", ch, IF hit THEN "text" ELSE "empty")
    /\ inflight' = RemoveAt(inflight, i)
    /\ UNCHANGED << modelInfo, sttSession, completionTimer, audioBuffer,
                    audioTimer, scheduled, initPc, closePc, handlersLive,
                    sinceFlush, ingested, windowAge, inputs, fnVars, captureVars >>

\* the i-th pending transcribeAudio call rejects: the catch logs it
TranscribeRejected(i) ==
    /\ i \in 1..Len(inflight)
    /\ emitted' = <<ErrorLog(inflight[i].ch)>>
    /\ last' = Step("transcribed", inflight[i].ch, "rejected")
    /\ inflight' = RemoveAt(inflight, i)
    /\ UNCHANGED << modelInfo, sttSession, currentUtterance, completionBuffer,
                    completionTimer, audioBuffer, audioTimer, scheduled, initPc,
                    closePc, handlersLive, turnFrags, quiet, sinceFlush, ingested,
                    windowAge, inputs, fnVars, captureVars >>

\* ------------------------------------------------- the capture subprocess
\* a SIGTERM reaches the subprocesses in ps that are still running
Signalled(ps) ==
    [q \in ProcIds |-> IF q \in ps /\ procState[q] = "running" THEN "killed"
                       ELSE procState[q]]

\* stopMacOSAudioCapture
stopMacOSAudioCapture ==
    /\ procState' = Signalled({systemAudioProc})
    /\ systemAudioProc' = 0

\* ---------------------------------------------------------- closeSessions
ClosedTimersAudioOnly == {audioTimer[c] : c \in Channels}

\* the timers closeSessions clears
ClosedTimers ==
    {completionTimer[c] : c \in Channels} \cup {audioTimer[c] : c \in Channels}

\* close() of every handle closed returns without a promise to wait for
ClosesAtOnce ==
    \A c \in Channels : ~sttSession[c].present \/ sttSession[c].provider = "gaia"

\* closeSessions up to its await; the reset follows at once when no handle's
\* close() is pending
CloseSessions ==
    /\ closePc = "idle" /\ initPc = "idle" /\ capturePc = "idle"
    /\ inputs < MaxInputs
    /\ stopMacOSAudioCapture
    /\ inputs' = inputs + 1
    /\ completionTimer' = [c \in Channels |-> 0]
    /\ audioTimer' = [c \in Channels |-> 0]
    /\ audioBuffer' = [c \in Channels |->
                          IF audioTimer[c] # 0 THEN <<>> ELSE audioBuffer[c]]
    /\ ingested' = [c \in Channels |->
                       IF audioTimer[c] # 0 THEN <<>> ELSE ingested[c]]
    /\ windowAge' = [c \in Channels |->
                       IF audioTimer[c] # 0 THEN 0 ELSE windowAge[c]]
    /\ scheduled' = {t \in scheduled : t.id \notin ClosedTimers}
    /\ sttSession' = [c \in Channels |-> NullSession]
    /\ emitted' = <<>>
    /\ IF ClosesAtOnce
       THEN /\ closePc' = "idle"
            /\ currentUtterance' = [c \in Channels |-> <<>>]
            /\ completionBuffer' = [c \in Channels |-> <<>>]
            /\ modelInfo' = "null"
            /\ turnFrags' = [c \in Channels |-> <<>>]
            /\ quiet' = [c \in Channels |-> 0]
            /\ last' = Step("close", "-", "closed")
       ELSE /\ closePc' = "awaitClose"
            /\ last' = Step("close", "-", "closing")
            /\ UNCHANGED << currentUtterance, completionBuffer, modelInfo,
                            turnFrags, quiet >>
    /\ UNCHANGED << inflight, initPc, handlersLive, sinceFlush, fnVars,
                    capturePc, spawned, captureDataVars >>

\* the awaited close() calls resolved: the state reset
CloseResolved ==
    /\ closePc = "awaitClose"
    /\ closePc' = "idle"
    /\ currentUtterance' = [c \in Channels |-> <<>>]
    /\ completionBuffer' = [c \in Channels |-> <<>>]
    /\ modelInfo' = "null"
    /\ turnFrags' = [c \in Channels |-> <<>>]
    /\ quiet' = [c \in Channels |-> 0]
    /\ emitted' = <<>>
    /\ last' = Step("close", "-", "closed")
    /\ UNCHANGED << sttSession, completionTimer, audioBuffer, audioTimer,
                    scheduled, inflight, initPc, handlersLive, sinceFlush,
                    ingested, windowAge, inputs, fnVars, captureVars >>

\* an awaited close() call rejected: closeSessions throws before the reset
CloseRejected ==
    /\ closePc = "awaitClose"
    /\ closePc' = "idle"
    /\ emitted' = <<>>
    /\ last' = Step("close", "-", "closeRejected")
    /\ UNCHANGED << modelInfo, sttSession, currentUtterance, completionBuffer,
                    completionTimer, audioBuffer, audioTimer, scheduled, inflight,
                    initPc, handlersLive, turnFrags, quiet, sinceFlush, ingested,
                    windowAge, inputs, fnVars, captureVars >>

\* ------------------------------------------------------------------- time
\* TickMs pass; a timeout that is due fires before more time passes
Tick ==
    /\ \A t \in scheduled : t.rem > 0
    /\ scheduled' = {[t EXCEPT !.rem = Max(0, @ - TickMs)] : t \in scheduled}
    /\ quiet' = [c \in Channels |->
                    IF turnFrags[c] # <<>> THEN Min(quiet[c] + TickMs, QuietCap)
                    ELSE quiet[c]]
    /\ windowAge' = [c \in Channels |->
                        IF audioBuffer[c] # <<>>
                        THEN Min(windowAge[c] + TickMs, WindowCap)
                        ELSE windowAge[c]]
    /\ emitted' = <<>>
    /\ last' = Step("tick", "-", "-")
    /\ UNCHANGED << modelInfo, sttSession, currentUtterance, completionBuffer,
                    completionTimer, audioBuffer, audioTimer, inflight, initPc,
                    closePc, handlersLive, turnFrags, sinceFlush, ingested,
                    inputs, fnVars, captureVars >>

\* ------------------------------------------------- the capture data handler
\* A buffer of stream bytes is kept as the runs of consecutive stream
\* positions it holds: <<lo, hi>> stands for the bytes lo .. hi - 1 of the
\* subprocess's output.
RECURSIVE BufLen(_)
BufLen(b) == IF b = <<>> THEN 0 ELSE (Head(b)[2] - Head(b)[1]) + BufLen(Tail(b))

BufConcatPrepend(a, b) == b \o a

\* Buffer.concat([a, b])
BufConcat(a, b) ==
    IF a = <<>> THEN b
    ELSE IF b = <<>> THEN a
    ELSE IF a[Len(a)][2] = b[1][1]
         THEN SubSeq(a, 1, Len(a) - 1) \o << <<a[Len(a)][1], b[1][2]>> >> \o Tail(b)
         ELSE a \o b

\* buffer.slice(0, n)
RECURSIVE BufTake(_, _)
BufTake(b, n) ==
    IF n <= 0 \/ b = <<>> THEN <<>>
    ELSE LET h == Head(b)
             l == h[2] - h[1]
         IN  IF l <= n THEN BufConcat(<<h>>, BufTake(Tail(b), n - l))
             ELSE << <<h[1], h[1] + n>> >>

\* buffer.slice(n)
RECURSIVE BufDrop(_, _)
BufDrop(b, n) ==
    IF b = <<>> THEN <<>>
    ELSE IF n <= 0 THEN b
    ELSE LET h == Head(b)
             l == h[2] - h[1]
         IN  IF l <= n THEN BufDrop(Tail(b), n - l)
             ELSE << <<h[1] + n, h[2]>> >> \o Tail(b)

\* what the handler does with the mono chunk after the renderer got it: the
\* call is skipped without a session, and a handle without the method throws
\* a TypeError into the catch
CaptureDelivery ==
    IF ~sttSession["Them"].present THEN "skipped"
    ELSE IF sttSession["Them"].sendRealtimeInput THEN "sendRealtimeInput"
    ELSE "TypeError"

\* what the handler forwards for a chunk: the stereo bytes sliced off, the
\* length of the mono chunk convertStereoToMono makes of them (sent to the
\* renderer as 'system-audio-data'), and what became of the session call
Forwarded(chunk) ==
    [chunk |-> chunk, monoLength |-> (BufLen(chunk) \div 4) * 2,
     sent |-> CaptureDelivery]

\* whether the handler suspends at await this.theirSttSession.sendRealtimeInput
CaptureAwaits == CaptureDelivery = "sendRealtimeInput"

RECURSIVE CaptureLoopStrict(_, _, _)
CaptureLoopStrict(buf, fwd, awaits) ==
    IF BufLen(buf) > CHUNK_SIZE
    THEN LET chunk == BufTake(buf, CHUNK_SIZE)
             rest == BufDrop(buf, CHUNK_SIZE)
             fwd1 == Append(fwd, Forwarded(chunk))
         IN  IF awaits THEN [buf |-> rest, fwd |-> fwd1, suspended |-> TRUE]
             ELSE CaptureLoopStrict(rest, fwd1, awaits)
    ELSE [buf |-> buf, fwd |-> fwd, suspended |-> FALSE]

\* the while loop of the data handler, run up to its next await or its exit
RECURSIVE CaptureLoop(_, _, _)
CaptureLoop(buf, fwd, awaits) ==
    IF BufLen(buf) >= CHUNK_SIZE
    THEN LET chunk == BufTake(buf, CHUNK_SIZE)
             rest == BufDrop(buf, CHUNK_SIZE)
             fwd1 == Append(fwd, Forwarded(chunk))
         IN  IF awaits THEN [buf |-> rest, fwd |-> fwd1, suspended |-> TRUE]
             ELSE CaptureLoop(rest, fwd1, awaits)
    ELSE [buf |-> buf, fwd |-> fwd, suspended |-> FALSE]

\* the sizes of the data events the subprocess's stdout delivers
DataSizes == { 1, CHUNK_SIZE - 1, 2 * CHUNK_SIZE }

captureGhostUnchanged ==
    UNCHANGED << serviceVars, turnFrags, quiet, sinceFlush, ingested, windowAge,
                 inputs, fnVars >>

\* startMacOSAudioCapture up to its await of killExistingSystemAudioDump (on
\* darwin); without a remote session it returns false at once
StartMacOSAudioCapture ==
    /\ capturePc = "idle" /\ closePc = "idle" /\ initPc = "idle"
    /\ spawned < Cardinality(ProcIds)
    /\ IF ~sttSession["Them"].present
       THEN /\ capturePc' = "idle"
            /\ last' = Step("startCapture", "Them", "notActive")
       ELSE /\ capturePc' = "killExisting"
            /\ last' = Step("startCapture", "Them", "called")
    /\ emitted' = <<>>
    /\ UNCHANGED << systemAudioProc, procState, spawned, captureDataVars >>
    /\ captureGhostUnchanged

\* pkill has signalled every SystemAudioDump there is; spawn returns a
\* subprocess object, with a pid (ok) or without one, and the object is
\* assigned to this.systemAudioProc before the pid is looked at. With a pid
\* the handlers are attached to a fresh, empty audioBuffer.
CaptureSpawn(ok) ==
    /\ capturePc = "killExisting"
    /\ LET p == spawned + 1
       IN  /\ spawned' = p
           /\ systemAudioProc' = p
           /\ procState' = [Signalled(ProcIds) EXCEPT
                               ![p] = IF ok THEN "running" ELSE "failed"]
           /\ captureAudioBuffer' = [captureAudioBuffer EXCEPT ![p] = <<>>]
    /\ capturePc' = "idle"
    /\ emitted' = IF ok THEN <<>> ELSE <<ErrorLog("Them")>>
    /\ last' = Step("startCapture", "Them", IF ok THEN "started" ELSE "spawnFailed")
    /\ UNCHANGED << pendingSends, forwardedChunks, streamLen, dataEvents >>
    /\ captureGhostUnchanged

\* stdout 'data' of subprocess p: its next n stream bytes arrive; a
\* subprocess that was signalled can still deliver what it wrote before it
\* is gone
CaptureData(p, n) ==
    /\ procState[p] \in {"running", "killed"}
    /\ dataEvents < MaxData
    /\ dataEvents' = dataEvents + 1
    /\ streamLen' = [streamLen EXCEPT ![p] = @ + n]
    /\ LET r == CaptureLoop(BufConcat(captureAudioBuffer[p],
                                      << <<streamLen[p], streamLen[p] + n>> >>),
                            forwardedChunks[p], CaptureAwaits)
       IN  /\ captureAudioBuffer' = [captureAudioBuffer EXCEPT ![p] = r.buf]
           /\ forwardedChunks' = [forwardedChunks EXCEPT ![p] = r.fwd]
           /\ pendingSends' = [pendingSends EXCEPT ![p] =
                                  IF r.suspended THEN @ + 1 ELSE @]
           /\ last' = Step("captureData", "Them",
                           IF r.suspended THEN "awaiting" ELSE "returned")
    /\ emitted' = <<>>
    /\ UNCHANGED captureProcVars
    /\ captureGhostUnchanged

\* an awaited sendRealtimeInput call resolved or rejected: its handler goes
\* on with the loop
CaptureSendSettled(p) ==
    /\ pendingSends[p] > 0
    /\ LET r == CaptureLoop(captureAudioBuffer[p], forwardedChunks[p], CaptureAwaits)
       IN  /\ captureAudioBuffer' = [captureAudioBuffer EXCEPT ![p] = r.buf]
           /\ forwardedChunks' = [forwardedChunks EXCEPT ![p] = r.fwd]
           /\ pendingSends' = [pendingSends EXCEPT ![p] =
                                  IF r.suspended THEN @ ELSE @ - 1]
           /\ last' = Step("captureSend", "Them",
                           IF r.suspended THEN "awaiting" ELSE "returned")
    /\ emitted' = <<>>
    /\ UNCHANGED << captureProcVars, streamLen, dataEvents >>
    /\ captureGhostUnchanged

\* 'close' of subprocess p: it is gone and its streams are closed; the
\* handler clears this.systemAudioProc, whichever object it holds
CaptureProcClosed(p) ==
    /\ procState[p] \in {"running", "killed"}
    /\ procState' = [procState EXCEPT ![p] = "exited"]
    /\ systemAudioProc' = 0
    /\ emitted' = <<>>
    /\ last' = Step("captureClose", "Them", "-")
    /\ UNCHANGED << capturePc, spawned, captureDataVars >>
    /\ captureGhostUnchanged

\* 'error' of subprocess p, which could not be signalled and runs on: the
\* handler logs and clears this.systemAudioProc
CaptureProcError(p) ==
    /\ procState[p] = "killed"
    /\ procState' = [procState EXCEPT ![p] = "running"]
    /\ systemAudioProc' = 0
    /\ emitted' = <<ErrorLog("Them")>>
    /\ last' = Step("captureError", "Them", "-")
    /\ UNCHANGED << capturePc, spawned, captureDataVars >>
    /\ captureGhostUnchanged

\* a call of stopMacOSAudioCapture
StopMacOSAudioCapture ==
    /\ stopMacOSAudioCapture
    /\ emitted' = <<>>
    /\ last' = Step("stopCapture", "Them",
                    IF systemAudioProc # 0 THEN "stopped" ELSE "idle")
    /\ UNCHANGED << capturePc, spawned, captureDataVars >>
    /\ captureGhostUnchanged

\* the service after initializeSttSessions returned true for provider p
SessionEstablished(p) ==
    /\ modelInfo = p
    /\ sttSession = [ch \in Channels |->
                        IF p = "gaia" THEN GaiaHandle ELSE StreamHandle(p, TRUE)]
    /\ currentUtterance = [ch \in Channels |-> <<>>]
    /\ completionBuffer = [ch \in Channels |-> <<>>]
    /\ completionTimer = [ch \in Channels |-> 0]
    /\ audioBuffer = [ch \in Channels |-> <<>>]
    /\ audioTimer = [ch \in Channels |-> 0]
    /\ scheduled = {}
    /\ inflight = <<>>
    /\ initPc = "idle"
    /\ closePc = "idle"
    /\ handlersLive = (p # "gaia")

\* the capture is looked at while the session stays established
InitCapture ==
    /\ \E p \in Providers : SessionEstablished(p)
    /\ GhostInit /\ FnIdle /\ CaptureIdle

NextCapture ==
    \/ StartMacOSAudioCapture
    \/ \E ok \in BOOLEAN : CaptureSpawn(ok)
    \/ \E p \in ProcIds, n \in DataSizes : CaptureData(p, n)
    \/ \E p \in ProcIds : CaptureSendSettled(p)
    \/ \E p \in ProcIds : CaptureProcClosed(p)
    \/ \E p \in ProcIds : CaptureProcError(p)
    \/ StopMacOSAudioCapture

\* ------------------------------------------------------ the pure functions
PcmBytes == { 0, 1, 128, 255 }

\* the buffers pcmToWav is applied to: every short one, and a long one
PcmBuffers ==
    UNION { [1..n -> PcmBytes] : n \in 0..MaxPcmLen }
        \cup { [i \in 1..LongPcmLen |-> i % 256] }

\* the options that stand for (1 channel, 16 bit, 24000 Hz): given, or left
\* out (0) for the defaults
MonoOptions ==
    { BatchWavOptions, [numChannels |-> 0, sampleRate |-> 0, bitDepth |-> 0] }

InitWav ==
    /\ ServiceConstructed /\ GhostInit /\ CaptureIdle
    /\ pcmArg \in [pcmBuffer : PcmBuffers, options : MonoOptions]
    /\ wavRes = <<>>
    /\ stereoArg = <<>>
    /\ monoRes = <<>>
    /\ fnPc = "idle"

\* pcmToWav(pcmBuffer, options) is called and returns
CallPcmToWav ==
    /\ fnPc = "idle"
    /\ wavRes' = pcmToWav(pcmArg.pcmBuffer, pcmArg.options)
    /\ fnPc' = "pcmToWav"
    /\ UNCHANGED << serviceVars, ghostVars, pcmArg, stereoArg, monoRes, captureVars >>

NextWav == CallPcmToWav

StereoBytes == { 1, 254 }

\* the buffers convertStereoToMono is applied to: k frames of four bytes
StereoBuffers == UNION { [1..(4 * k) -> StereoBytes] : k \in 0..MaxFrames }

InitMono ==
    /\ ServiceConstructed /\ GhostInit /\ CaptureIdle
    /\ pcmArg = [pcmBuffer |-> <<>>, options |-> BatchWavOptions]
    /\ wavRes = <<>>
    /\ stereoArg \in StereoBuffers
    /\ monoRes = <<>>
    /\ fnPc = "idle"

\* convertStereoToMono(stereoBuffer) is called and returns
CallConvertStereoToMono ==
    /\ fnPc = "idle"
    /\ monoRes' = convertStereoToMono(stereoArg)
    /\ fnPc' = "convertStereoToMono"
    /\ UNCHANGED << serviceVars, ghostVars, pcmArg, wavRes, stereoArg, captureVars >>

NextMono == CallConvertStereoToMono

\* ------------------------------------------------------------------- Spec
\* the steps of a session with a streaming provider (gemini, or a
\* delta-streaming one)
StreamProviders == {"gemini", "openai"}

Next ==
    \/ InitializeSttSessions
    \/ \E mi \in StreamProviders \cup {"null"} : InitModelInfo(mi)
    \/ InitCreateRejected
    \/ \E hs \in HandlePairs(modelInfo) : InitCreateResolved(hs[1], hs[2])
    \/ \E ch \in Channels, m \in Messages : HandleMessage(ch, m)
    \/ \E ch \in Channels : FlushCompletion(ch)
    \/ \E t \in scheduled : CompletionTimerFires(t)
    \/ \E ch \in Channels, data \in AudioChunks : SendAudioContent(ch, data)
    \/ CloseSessions
    \/ CloseResolved
    \/ CloseRejected
    \/ Tick

\* the steps of a session with the batch-only provider (gaia)
NextBatch ==
    \/ InitializeSttSessions
    \/ \E mi \in {"gaia", "null"} : InitModelInfo(mi)
    \/ \E ch \in Channels, data \in AudioChunks : SendAudioContent(ch, data)
    \/ \E t \in scheduled : AudioTimerFires(t)
    \/ \E i \in 1..Len(inflight), text \in ResultTexts : TranscribeResolved(i, text)
    \/ \E i \in 1..Len(inflight) : TranscribeRejected(i)
    \/ CloseSessions
    \/ Tick

Spec == Init /\ [][Next]_vars

SpecBatch == Init /\ [][NextBatch]_vars

SpecCapture == InitCapture /\ [][NextCapture]_vars

SpecWav == InitWav /\ [][NextWav]_vars

SpecMono == InitMono /\ [][NextMono]_vars

\* ----------------------------------------------------------------- claims
\* the fragments of a turn joined byte-adjacent
RECURSIVE JoinAdjacent(_)
JoinAdjacent(frags) ==
    IF frags = <<>> THEN <<>> ELSE Head(frags) \o JoinAdjacent(Tail(frags))

\* the session is established with two streaming handles and is not closing
StreamingOpen ==
    /\ initPc = "idle" /\ closePc = "idle"
    /\ \A ch \in Channels : sttSession[ch].present /\ sttSession[ch].sendRealtimeInput

\* C1 (as the claim states it): on a delta-streaming channel, once the
\* debounce interval has passed with no further fragment the fragments of the
\* turn have been emitted as a final event, so no turn with fragments stays
\* quiet for longer than the interval.
C1_QuietTurnIsFinalised ==
    \A ch \in Channels :
        (modelInfo = "openai" /\ StreamingOpen /\ turnFrags[ch] # <<>>)
            => quiet[ch] < COMPLETION_DEBOUNCE_MS + TickMs

\* C2: on a gemini channel, a turn-complete message handled while the turn
\* has accepted fragments and its completion timer is armed emits at that
\* step exactly one final event, whose text is the trimmed byte-adjacent
\* concatenation of the turn's fragments in arrival order; the timer is
\* cancelled and the buffers are emptied, so nothing of the turn is left to
\* be emitted again.
C2_TurnCompleteEmitsTrimmedFinal ==
    [][\A ch \in Channels, m \in Messages :
        (/\ modelInfo = "gemini" /\ m.turnComplete
         /\ turnFrags[ch] # <<>> /\ completionTimer[ch] # 0
         /\ HandleMessage(ch, m))
        => LET text == Trim(JoinAdjacent(turnFrags[ch]))
           IN  /\ emitted' = << CompleteCb(ch, text), SttUpdate(ch, text, FALSE) >>
               /\ completionBuffer'[ch] = <<>>
               /\ currentUtterance'[ch] = <<>>
               /\ completionTimer'[ch] = 0
               /\ \A t \in scheduled' : t.id # completionTimer[ch]
               /\ turnFrags'[ch] = <<>>]_vars

\* a turn-complete message just emitted the final of a turn of two fragments
\* whose concatenation had to be trimmed
C2_Witness ==
    \E ch \in Channels :
        /\ last = Step("message", ch, "turnComplete")
        /\ modelInfo = "gemini"
        /\ emitted = << CompleteCb(ch, <<"b", "a">>),
                        SttUpdate(ch, <<"b", "a">>, FALSE) >>

\* C2 as the claim states it: the final's text is the byte-adjacent
\* concatenation of the fragments, untrimmed
C2_Original ==
    [][\A ch \in Channels, m \in Messages :
        (/\ modelInfo = "gemini" /\ m.turnComplete /\ StreamingOpen
         /\ turnFrags[ch] # <<>> /\ completionTimer[ch] # 0
         /\ HandleMessage(ch, m))
        => Finals(emitted', ch) =
               << SttUpdate(ch, JoinAdjacent(turnFrags[ch]), FALSE) >>]_vars

\* C3: for either channel, a flush called when a flush was already called
\* and no fragment was merged since emits nothing and changes neither the
\* buffers nor the timer handles (so the two calls emit at most one final).
C3_FlushIdempotent ==
    [][\A ch \in Channels :
        (sinceFlush[ch] # "no" /\ FlushCompletion(ch))
        => /\ emitted' = <<>>
           /\ completionBuffer' = completionBuffer
           /\ currentUtterance' = currentUtterance
           /\ completionTimer' = completionTimer
           /\ scheduled' = scheduled]_vars

\* flush was just called again after a flush that emitted the turn's final
C3_Witness ==
    \E ch \in Channels :
        last = Step("flush", ch, "again") /\ sinceFlush[ch] = "final"

\* C4: when the batch timer of a gaia channel expires and N > 0 bytes were
\* ingested in its window, exactly one transcribeAudio call is added, the
\* payload has N + 44 bytes, its data section is the ingested bytes in
\* arrival order, and the window's buffer and timer handle are cleared.
C4_OneWavPerWindow ==
    [][\A t \in scheduled :
        (AudioTimerFires(t) /\ Len(ingested[t.ch]) > 0)
        => /\ Len(inflight') = Len(inflight) + 1
           /\ SubSeq(inflight', 1, Len(inflight)) = inflight
           /\ LET call == inflight'[Len(inflight')]
                  N == Len(ingested[t.ch])
              IN  /\ call.ch = t.ch
                  /\ Len(call.wav) = N + 44
                  /\ SubSeq(call.wav, 45, N + 44) = ingested[t.ch]
           /\ audioBuffer'[t.ch] = <<>>
           /\ audioTimer'[t.ch] = 0]_vars

\* a window that took two ingest calls (1 byte, then 2 bytes) was submitted
C4_Witness ==
    /\ last.op = "audioTimer" /\ last.kind = "submitted"
    /\ inflight # <<>>
    /\ inflight[Len(inflight)].ch = last.ch
    /\ Len(inflight[Len(inflight)].wav) = 47
    /\ SubSeq(inflight[Len(inflight)].wav, 45, 47) = <<7, 8, 9>>

\* C5: at every state at most one audio-batch timer is pending per channel;
\* an audio arrival while the channel's timer is armed leaves the timer
\* handle and the pending timeouts as they were; and the timer expires
\* AUDIO_SEND_INTERVAL after the arrival that opened the window.
C5_OneBatchTimer ==
    /\ [](\A ch \in Channels :
            Cardinality({t \in scheduled : t.kind = "audio" /\ t.ch = ch}) <= 1)
    /\ [][/\ \A ch \in Channels, data \in AudioChunks :
                (audioTimer[ch] # 0 /\ SendAudioContent(ch, data))
                => (audioTimer' = audioTimer /\ scheduled' = scheduled)
          /\ \A t \in scheduled :
                AudioTimerFires(t)
                => /\ windowAge[t.ch] >= 5000
                   /\ windowAge[t.ch] < 5000 + TickMs]_vars

\* audio just arrived on a channel whose window was opened earlier
C5_Witness ==
    \E ch \in Channels :
        /\ last = Step("audio", ch, "added")
        /\ audioTimer[ch] # 0
        /\ windowAge[ch] > 0

\* C6: whatever the sizes of the data events, every chunk forwarded is
\* 9600 consecutive stream bytes, the i-th being bytes 9600 (i - 1) up to
\* 9600 i, the buffer holds the stream bytes after the last chunk, and once
\* no handler is suspended the chunks number floor(T / 9600) and the buffer
\* holds the last T mod 9600 bytes.
C6_CaptureChunking ==
    \A p \in ProcIds :
        /\ \A i \in 1..Len(forwardedChunks[p]) :
              forwardedChunks[p][i].chunk = << <<9600 * (i - 1), 9600 * i>> >>
        /\ captureAudioBuffer[p] =
              IF 9600 * Len(forwardedChunks[p]) = streamLen[p] THEN <<>>
              ELSE << <<9600 * Len(forwardedChunks[p]), streamLen[p]>> >>
        /\ pendingSends[p] = 0
              => /\ Len(forwardedChunks[p]) = streamLen[p] \div 9600
                 /\ BufLen(captureAudioBuffer[p]) = streamLen[p] % 9600
                 /\ BufLen(captureAudioBuffer[p]) <= 9599

\* three data events that did not fall on chunk boundaries gave two chunks
\* and a remainder, and no handler is suspended
C6_Witness ==
    /\ dataEvents = 3
    /\ pendingSends[1] = 0
    /\ Len(forwardedChunks[1]) = 2
    /\ streamLen[1] = 1 + 19200 + 1
    /\ captureAudioBuffer[1] # <<>>

\* C7: on a gemini channel, a message without the turn-complete marker whose
\* transcription text is empty, whitespace only or trims to '<noise>' emits
\* nothing and leaves the completion buffer, the current utterance, the
\* timer handle and the pending timeouts as they were.
C7_NoiseIsIgnored ==
    [][\A ch \in Channels, m \in Messages :
        (/\ modelInfo = "gemini" /\ ~m.turnComplete
         /\ Trim(m.inputText) \in { <<>>, <<"N">> }
         /\ HandleMessage(ch, m))
        => /\ emitted' = <<>>
           /\ completionBuffer' = completionBuffer
           /\ currentUtterance' = currentUtterance
           /\ completionTimer' = completionTimer
           /\ scheduled' = scheduled]_vars

\* a noise fragment was just handled on a channel with a pending turn
C7_Witness ==
    \E ch \in Channels :
        /\ last = Step("message", ch, "noise")
        /\ completionBuffer[ch] # <<>>
        /\ completionTimer[ch] # 0

\* C8: pcmToWav of N bytes under (1 channel, 16 bit, 24000 Hz) returns
\* N + 44 bytes whose header reads RIFF size 36 + N, format tag 1, 1
\* channel, sample rate 24000, byte rate 48000, block align 2, bit depth 16
\* and data size N, followed by the N input bytes.
C8_WavHeader ==
    fnPc = "pcmToWav" =>
        LET N == Len(pcmArg.pcmBuffer)
        IN  /\ Len(wavRes) = N + 44
            /\ ReadU32LE(wavRes, 4) = 36 + N
            /\ ReadU16LE(wavRes, 20) = 1
            /\ ReadU16LE(wavRes, 22) = 1
            /\ ReadU32LE(wavRes, 24) = 24000
            /\ ReadU32LE(wavRes, 28) = 48000
            /\ ReadU16LE(wavRes, 32) = 2
            /\ ReadU16LE(wavRes, 34) = 16
            /\ ReadU32LE(wavRes, 40) = N
            /\ SubSeq(wavRes, 45, N + 44) = pcmArg.pcmBuffer

\* pcmToWav returned for a buffer whose length needs two bytes
C8_Witness ==
    fnPc = "pcmToWav" /\ Len(pcmArg.pcmBuffer) > 255 /\ Len(wavRes) > 255 + 44

\* C9: convertStereoToMono of 4 k bytes returns 2 k bytes, and the two
\* bytes of output sample i are the two bytes of the left sample of frame i.
C9_LeftChannel ==
    fnPc = "convertStereoToMono" =>
        LET k == Len(stereoArg) \div 4
        IN  /\ Len(monoRes) = 2 * k
            /\ \A i \in 0..(k - 1) :
                  /\ monoRes[2 * i + 1] = stereoArg[4 * i + 1]
                  /\ monoRes[2 * i + 2] = stereoArg[4 * i + 2]

\* convertStereoToMono returned for two frames whose left and right samples
\* differ
C9_Witness ==
    /\ fnPc = "convertStereoToMono"
    /\ Len(stereoArg) = 8 /\ Len(monoRes) = 4
    /\ stereoArg[1] # stereoArg[3]
    /\ stereoArg[6] # stereoArg[8]

\* C10 (as the claim states it): after initializeSttSessions failed, both
\* handles are null, isSessionActive() is false and no model info is held.
C10_NoPartialSession ==
    (last.op = "initialize"
        /\ last.kind \in {"noModelInfo", "createRejected", "noSendRealtimeInput"})
    => /\ \A ch \in Channels : ~sttSession[ch].present
       /\ ~isSessionActive
       /\ modelInfo = "null"

C12_CloseFlushesPending ==
    [][CloseSessions =>
          \A ch \in Channels :
              /\ (StreamingOpen
                    /\ FinalText(completionBuffer[ch], currentUtterance[ch]) # <<>>)
                 => \E i \in 1..Len(emitted') :
                       emitted'[i] =
                           SttUpdate(ch, FinalText(completionBuffer[ch],
                                                   currentUtterance[ch]), FALSE)
              /\ audioBuffer[ch] # <<>>
                 => \E i \in 1..Len(inflight') : inflight'[i].ch = ch]_vars

\* C13 (as the claim states it): once closeSessions has completed, whatever
\* was delivered while it was suspended, both channels have empty committed
\* and live buffers, no pending audio, no armed completion timer, no armed
\* audio timer, and both handles are released.
C13_CleanAfterClose ==
    last = Step("close", "-", "closed")
    => /\ \A ch \in Channels :
             /\ completionBuffer[ch] = <<>>
             /\ currentUtterance[ch] = <<>>
             /\ audioBuffer[ch] = <<>>
             /\ completionTimer[ch] = 0
             /\ audioTimer[ch] = 0
             /\ ~sttSession[ch].present
       /\ \A t \in scheduled : t.kind \notin {"completion", "audio"}

\* C14 (as the claim states it): a provider message delivered to a channel
\* whose handle closeSessions has cleared is discarded: it changes no
\* buffer, arms and cancels no timer, and sends no event.
C14_StaleMessageDiscarded ==
    [][\A ch \in Channels, m \in Messages :
          (~sttSession[ch].present /\ HandleMessage(ch, m))
          => /\ emitted' = <<>>
             /\ completionBuffer' = completionBuffer
             /\ currentUtterance' = currentUtterance
             /\ completionTimer' = completionTimer
             /\ scheduled' = scheduled]_vars

\* C15 (as the claim states it): closeSessions does not finish while an
\* operation it has to wait for is in flight: in the state in which it has
\* just completed, no transcribeAudio submission is pending.
C15_CloseAwaitsInflight ==
    (last.op = "close" /\ last.kind \in {"closed", "closeRejected"})
    => inflight = <<>>

\* C16 (as the claim states it): every message that carries an error field
\* has the error surfaced, whatever else the message contains and whichever
\* streaming family the channel speaks.
C16_ErrorAlwaysSurfaced ==
    [][\A ch \in Channels, m \in Messages :
          (m.error /\ StreamingOpen /\ HandleMessage(ch, m))
          => \E i \in 1..Len(emitted') : emitted'[i] = ErrorLog(ch)]_vars

\* C17 (as the claim states it): for every protocol family, each chunk the
\* capture handler slices off reaches the remote channel's audio ingestion
\* as sendSystemAudioContent would deliver it: on a streaming session it is
\* sent with sendRealtimeInput, on a batch-only session the mono chunk is
\* appended to the remote pending audio batch.
C17_CaptureFeedsRemoteChannel ==
    [][\A p \in ProcIds, n \in DataSizes :
          (CaptureData(p, n) /\ Len(forwardedChunks'[p]) > Len(forwardedChunks[p]))
          => \A i \in (Len(forwardedChunks[p]) + 1)..Len(forwardedChunks'[p]) :
                IF modelInfo = "gaia"
                THEN /\ audioBuffer'["Them"] # audioBuffer["Them"]
                     /\ audioTimer'["Them"] # 0
                ELSE forwardedChunks'[p][i].sent = "sendRealtimeInput"]_vars

\* C18 (as the claim states it): once stop() was called for a subprocess, or
\* the subprocess exited or errored, the supervisor holds no handle and the
\* bytes left in that subprocess's buffer below a chunk are never forwarded:
\* no later event of the subprocess adds a forwarded chunk.
C18_LeftoverNeverForwarded ==
    [][\A p \in ProcIds, n \in DataSizes :
          (/\ systemAudioProc # p
           /\ captureAudioBuffer[p] # <<>>
           /\ CaptureData(p, n))
          => forwardedChunks'[p] = forwardedChunks[p]]_vars

\* C19 (as the claim states it): when the spawn gives a subprocess without a
\* pid, startMacOSAudioCapture reports the failure and the supervisor holds
\* no subprocess handle.
C19_SpawnFailureLeavesIdle ==
    last = Step("startCapture", "Them", "spawnFailed") => systemAudioProc = 0

\* C20 (as the claim states it): after every accepted fragment on a
\* streaming channel, inline transcription or delta, exactly one completion
\* timer is armed for that channel, with the full 2000 ms remaining, and the
\* timer armed before is cancelled.
C20_FragmentRearmsTimer ==
    [][\A ch \in Channels, m \in Messages :
          (/\ StreamingOpen
           /\ HandleMessage(ch, m)
           /\ MessageKind(modelInfo, m) \in {"transcription", "delta", "completed"}
           /\ turnFrags'[ch] # turnFrags[ch])
          => /\ completionTimer'[ch] # 0
             /\ \E t \in scheduled' :
                   /\ t.id = completionTimer'[ch]
                   /\ t.kind = "completion" /\ t.ch = ch
                   /\ t.rem = COMPLETION_DEBOUNCE_MS
             /\ completionTimer[ch] # 0
                   => \A t \in scheduled' : t.id # completionTimer[ch]
                                            \/ t.id = completionTimer'[ch]]_vars

\* C21: on a delta-streaming channel, a 'completed' message whose text is
\* not empty after trimming cancels the armed completion timer, empties the
\* live utterance, appends the trimmed text to the completion buffer, after
\* a single space exactly when the buffer was not empty, and arms the timer
\* for 2000 ms without sending a final; the expiry of that timer after two
\* such messages sends one final that holds both texts.
C21_CompletedMergesAndRearms ==
    [][\A ch \in Channels :
        /\ \A m \in Messages :
              (/\ modelInfo \notin {"null", "gemini"}
               /\ m.type = "completed" /\ Trim(m.text) # <<>>
               /\ last' = Step("message", ch, "completed")
               /\ HandleMessage(ch, m))
              => /\ completionBuffer'[ch] =
                        IF completionBuffer[ch] = <<>> THEN Trim(m.text)
                        ELSE completionBuffer[ch] \o <<" ">> \o Trim(m.text)
                 /\ currentUtterance'[ch] = <<>>
                 /\ completionTimer'[ch] # 0
                 /\ {t \in scheduled' : t.id = completionTimer'[ch]} =
                        {[id |-> completionTimer'[ch], kind |-> "completion",
                          ch |-> ch, rem |-> COMPLETION_DEBOUNCE_MS]}
                 /\ completionTimer[ch] # 0
                       => \A t \in scheduled' : t.id = completionTimer[ch]
                                                => t.id = completionTimer'[ch]
                 /\ Finals(emitted', ch) = <<>>
        /\ \A t \in scheduled :
              (/\ modelInfo \notin {"null", "gemini"}
               /\ t.ch = ch /\ t.id = completionTimer[ch]
               /\ completionBuffer[ch] = <<"b", " ", "b">>
               /\ currentUtterance[ch] = <<>>
               /\ CompletionTimerFires(t))
              => Finals(emitted', ch) =
                     <<SttUpdate(ch, <<"b", " ", "b">>, FALSE)>>]_vars

\* two 'completed' messages arrived within the debounce interval and the
\* timer armed by the second has expired: one final holds both texts
C21_Witness ==
    \E ch \in Channels :
        /\ modelInfo = "openai"
        /\ last = Step("completionTimer", ch, "fired")
        /\ emitted = << CompleteCb(ch, <<"b", " ", "b">>),
                        SttUpdate(ch, <<"b", " ", "b">>, FALSE) >>
        /\ completionBuffer[ch] = <<>>
        /\ \A t \in scheduled : t.ch # ch

\* the text a partial event shows for a channel: the completion buffer and
\* the live utterance, which the delta branch joins with a space
RunningText(mi, buf, utt) ==
    IF mi = "gemini" THEN buf \o utt
    ELSE buf \o (IF buf # <<>> /\ utt # <<>> THEN <<" ">> ELSE <<>>) \o utt

DeltaAdded(ch) ==
    SubSeq(currentUtterance'[ch], Len(currentUtterance[ch]) + 1,
           Len(currentUtterance'[ch]))

MarkerTexts == {t \in DeltaTexts : \E i \in 1..Len(t) : t[i] = "M"}

\* C23: on a delta-streaming channel every delta is appended to the live
\* utterance; a delta that holds the marker sends no stt-update at all, and
\* a non-empty delta without the marker sends exactly one partial and no
\* final.
C23_MarkerDeltaSuppressed ==
    [][\A ch \in Channels, m \in Messages :
          (/\ modelInfo \notin {"null", "gemini"}
           /\ m.type = "delta"
           /\ last' = Step("message", ch, "delta")
           /\ HandleMessage(ch, m))
          => /\ currentUtterance'[ch] = currentUtterance[ch] \o m.text
             /\ completionBuffer'[ch] = completionBuffer[ch]
             /\ Finals(emitted', ch) = <<>>
             /\ m.text \in MarkerTexts => Partials(emitted', ch) = <<>>
             /\ (m.text # <<>> /\ m.text \notin MarkerTexts)
                   => Len(Partials(emitted', ch)) = 1]_vars

\* a delta with the marker was appended to the live utterance and nothing
\* was sent
C23_Witness ==
    \E ch \in Channels :
        /\ last = Step("message", ch, "delta")
        /\ currentUtterance[ch] = <<"M", "a">>
        /\ emitted = <<>>

\* C24: a flush of a channel, called directly or by the expiry of the
\* channel's timer, whose trimmed buffer + utterance is not empty sends
\* exactly one final, with that trimmed text, and leaves the completion
\* buffer empty, the live utterance empty and the timer handle null; a
\* flush whose trimmed text is empty sends nothing and changes no field.
C24_FlushEmitsTrimmedOnce ==
    [][\A ch \in Channels :
          (\/ FlushCompletion(ch)
           \/ \E t \in scheduled : t.ch = ch /\ CompletionTimerFires(t))
          => LET finalText == Trim(completionBuffer[ch] \o currentUtterance[ch])
             IN  IF finalText # <<>>
                 THEN /\ emitted' = << CompleteCb(ch, finalText),
                                       SttUpdate(ch, finalText, FALSE) >>
                      /\ completionBuffer'[ch] = <<>>
                      /\ currentUtterance'[ch] = <<>>
                      /\ completionTimer'[ch] = 0
                 ELSE /\ emitted' = <<>>
                      /\ completionBuffer' = completionBuffer
                      /\ currentUtterance' = currentUtterance
                      /\ completionTimer' = completionTimer]_vars

\* a direct flush sent the final for a channel that held committed text
\* and a live utterance
C24_Witness ==
    \E ch \in Channels :
        /\ last = Step("flush", ch, "first")
        /\ emitted = << CompleteCb(ch, <<"b", "a">>),
                        SttUpdate(ch, <<"b", "a">>, FALSE) >>
        /\ completionBuffer[ch] = <<>>
        /\ currentUtterance[ch] = <<>>
        /\ completionTimer[ch] = 0

\* C25: when the transcribeAudio call of a batch window rejects, the
\* callback's catch logs it and nothing else happens: no stt-update and no
\* completion callback, the call is dropped and none is added, and the
\* pending audio, its timer and the bytes ingested for the next window stay
\* as they are; every request carries exactly the bytes ingested in its own
\* window, whatever became of the requests before it.
C25_FailedWindowIsDropped ==
    [][/\ \A i \in 1..Len(inflight) :
            (last'.op = "transcribed" /\ last'.kind = "rejected"
                /\ TranscribeRejected(i))
            => /\ emitted' = <<ErrorLog(inflight[i].ch)>>
               /\ Len(inflight') = Len(inflight) - 1
               /\ \A j \in 1..Len(inflight') :
                     \E k \in 1..Len(inflight) : k # i /\ inflight'[j] = inflight[k]
               /\ audioBuffer' = audioBuffer
               /\ audioTimer' = audioTimer
               /\ scheduled' = scheduled
               /\ ingested' = ingested
       /\ \A t \in scheduled :
            (last'.op = "audioTimer" /\ AudioTimerFires(t) /\ inflight' # inflight)
            => LET call == inflight'[Len(inflight')]
               IN  /\ call.ch = t.ch
                   /\ SubSeq(call.wav, wavHeaderSize + 1, Len(call.wav))
                          = ingested[t.ch]]_vars

\* a request was rejected while the next window of its channel was already
\* open: the error was logged and the new window's bytes are untouched
C25_Witness ==
    \E ch \in Channels :
        /\ last = Step("transcribed", ch, "rejected")
        /\ emitted = <<ErrorLog(ch)>>
        /\ inflight = <<>>
        /\ audioBuffer[ch] # <<>> /\ audioTimer[ch] # 0
        /\ ingested[ch] = <<8, 9>>

\* the result texts of the model that are not empty after trimming, each
\* with what is left of it without its [..] and (..) annotations, trimmed
SanitizedResults ==
    { << <<"a">>, <<"a">> >>,
      << <<"[", "x", "]">>, <<>> >>,
      << <<"a", "(", "x", ")">>, <<"a">> >> }

\* C26: a transcribeAudio call that resolves with a text that is not empty
\* after trimming sends exactly one stt-update, which is final and carries
\* the text without its bracket and paren annotations, trimmed; it sends no
\* partial.
C26_BatchResultIsOneSanitizedFinal ==
    [][\A i \in 1..Len(inflight), r \in SanitizedResults :
          (last'.op = "transcribed" /\ last'.kind = "text"
              /\ TranscribeResolved(i, r[1]))
          => LET ch == inflight[i].ch
             IN  /\ Finals(emitted', ch) = <<SttUpdate(ch, r[2], FALSE)>>
                 /\ Partials(emitted', ch) = <<>>
                 /\ \A k \in 1..Len(emitted') :
                       emitted'[k].kind = "stt-update" => emitted'[k].speaker = ch]_vars

\* a call resolved with 'a(x)': the one final sent carries 'a'
C26_Witness ==
    \E ch \in Channels :
        /\ last = Step("transcribed", ch, "text")
        /\ emitted = << CompleteCb(ch, <<"a", "(", "x", ")">>),
                        SttUpdate(ch, <<"a">>, FALSE) >>

\* the position of the earliest pending call of channel ch
EarliestCall(ch) ==
    CHOOSE i \in 1..Len(inflight) :
        /\ inflight[i].ch = ch
        /\ \A j \in 1..(i - 1) : inflight[j].ch # ch

\* C27: within one channel the finals of the batch results come out in the
\* order in which the windows expired: the call whose result sends a final
\* is the earliest pending call of its channel.
C27_FinalsInWindowOrder ==
    [][(last'.op = "transcribed" /\ last'.kind = "text"
            /\ Len(inflight') = Len(inflight) - 1)
       => inflight' = RemoveAt(inflight, EarliestCall(last'.ch))]_vars

\* the steps of a session that stays open, with any provider: the
\* streaming ones and gaia
NextSession ==
    \/ InitializeSttSessions
    \/ \E mi \in StreamProviders \cup {"gaia", "null"} : InitModelInfo(mi)
    \/ InitCreateRejected
    \/ \E hs \in HandlePairs(modelInfo) : InitCreateResolved(hs[1], hs[2])
    \/ \E ch \in Channels, m \in Messages : HandleMessage(ch, m)
    \/ \E ch \in Channels : FlushCompletion(ch)
    \/ \E t \in scheduled : CompletionTimerFires(t)
    \/ \E ch \in Channels, data \in AudioChunks : SendAudioContent(ch, data)
    \/ \E t \in scheduled : AudioTimerFires(t)
    \/ \E i \in 1..Len(inflight), text \in ResultTexts : TranscribeResolved(i, text)
    \/ \E i \in 1..Len(inflight) : TranscribeRejected(i)
    \/ Tick

SpecSession == Init /\ [][NextSession]_vars

\* the channel that is not ch
OtherChannel(ch) == CHOOSE o \in Channels : o # ch

\* the steps that belong to one channel: a provider message, an audio
\* chunk, a direct flush, the expiry of either timer, a batch result
ChannelOps == { "message", "audio", "flush", "completionTimer", "audioTimer",
                "transcribed" }

\* C28: the two channels are independent: a provider message, an audio
\* chunk, a timer expiry, a flush or a batch result of one channel leaves
\* the other channel's completion buffer, live utterance, completion timer,
\* pending audio and audio timer as they were, scheduled timers included,
\* and sends no event attributed to the other channel.
C28_ChannelsIndependent ==
    [][\A ch \in Channels :
          (last'.ch = ch /\ last'.op \in ChannelOps)
          => LET o == OtherChannel(ch)
             IN  /\ completionBuffer'[o] = completionBuffer[o]
                 /\ currentUtterance'[o] = currentUtterance[o]
                 /\ completionTimer'[o] = completionTimer[o]
                 /\ audioBuffer'[o] = audioBuffer[o]
                 /\ audioTimer'[o] = audioTimer[o]
                 /\ { t \in scheduled' : t.ch = o } = { t \in scheduled : t.ch = o }
                 /\ \A k \in 1..Len(emitted') : emitted'[k].speaker # o]_vars

\* a message of one channel changed that channel and sent an event while
\* the other channel had committed text and an armed completion timer
C28_Witness ==
    \E ch \in Channels :
        /\ last.op = "message" /\ last.ch = ch
        /\ emitted # <<>>
        /\ currentUtterance[ch] # <<>>
        /\ completionBuffer[OtherChannel(ch)] # <<>>
        /\ completionTimer[OtherChannel(ch)] # 0
        /\ \E t \in scheduled : t.id = completionTimer[OtherChannel(ch)]

\* C29: initializeSttSessions, once both createSTT calls have resolved,
\* fails on the capability check exactly when the provider is not gaia and
\* one of the two handles has no sendRealtimeInput; with gaia it succeeds
\* although neither handle has one.
C29_CapabilityCheckByFamily ==
    [][(last'.op = "initialize" /\ last'.kind \in {"ok", "noSendRealtimeInput"})
       => /\ (last'.kind = "noSendRealtimeInput")
                <=> /\ modelInfo' \in StreamProviders
                    /\ \E ch \in Channels : ~sttSession'[ch].sendRealtimeInput
          /\ modelInfo' = "gaia"
                => /\ last'.kind = "ok"
                   /\ \A ch \in Channels : ~sttSession'[ch].sendRealtimeInput]_vars

\* a streaming provider whose Remote handle alone lacks sendRealtimeInput:
\* the initialisation failed
C29_Witness ==
    /\ last = Step("initialize", "-", "noSendRealtimeInput")
    /\ modelInfo \in StreamProviders
    /\ sttSession["Me"].sendRealtimeInput
    /\ ~sttSession["Them"].sendRealtimeInput

\* C30: a close or error event of an earlier capture subprocess never
\* clears the handle of a later one: while this.systemAudioProc refers to a
\* running subprocess, the event of another subprocess leaves it referring
\* to that subprocess.
C30_EarlierExitKeepsLaterHandle ==
    [][\A p \in ProcIds :
          (/\ systemAudioProc \notin {0, p}
           /\ procState[systemAudioProc] = "running"
           /\ CaptureProcClosed(p) \/ CaptureProcError(p))
          => systemAudioProc' = systemAudioProc]_vars

\* the transcribeAudio request that carries the bytes pcm of channel ch: a
\* 44-byte header followed by the bytes
CarriesBytes(call, ch, pcm) ==
    /\ call.ch = ch
    /\ Len(call.wav) = wavHeaderSize + Len(pcm)
    /\ SubSeq(call.wav, wavHeaderSize + 1, Len(call.wav)) = pcm

\* the pending transcribeAudio calls of channel ch, oldest first
CallsOf(q, ch) == SelectSeq(q, LAMBDA c : c.ch = ch)

\* C31: on a gaia channel, closeSessions apart, every byte ingested is
\* pending in arrival order until the channel's timer expires and is then
\* carried by exactly one new transcribeAudio request, also while earlier
\* requests are still pending; a request is never changed, doubled or made
\* again once made; and bytes are pending only while the channel's audio
\* timer is armed.
C31_EveryByteInOneRequest ==
    /\ [](\A ch \in Channels :
            /\ Concat(audioBuffer[ch]) = ingested[ch]
            /\ ingested[ch] # <<>>
                  => /\ audioTimer[ch] # 0
                     /\ \E t \in scheduled :
                           t.id = audioTimer[ch] /\ t.kind = "audio" /\ t.ch = ch)
    /\ [][\A ch \in Channels :
            last'.op # "close"
            => \/ /\ last'.op = "audio" /\ last'.ch = ch
                  /\ last'.kind \in {"opened", "added"}
                  /\ \E data \in AudioChunks :
                        /\ audioBuffer'[ch] = Append(audioBuffer[ch], data)
                        /\ ingested'[ch] = ingested[ch] \o data
                  /\ CallsOf(inflight', ch) = CallsOf(inflight, ch)
               \/ /\ last'.op = "audioTimer" /\ last'.ch = ch
                  /\ ingested'[ch] = <<>>
                  /\ IF ingested[ch] = <<>>
                     THEN CallsOf(inflight', ch) = CallsOf(inflight, ch)
                     ELSE /\ Len(CallsOf(inflight', ch)) = Len(CallsOf(inflight, ch)) + 1
                          /\ SubSeq(CallsOf(inflight', ch), 1, Len(CallsOf(inflight, ch)))
                                = CallsOf(inflight, ch)
                          /\ CarriesBytes(inflight'[Len(inflight')], ch, ingested[ch])
               \/ /\ \/ last'.ch # ch
                     \/ last'.op \notin {"audio", "audioTimer"}
                     \/ last'.kind = "notActive"
                  /\ ingested'[ch] = ingested[ch]
                  /\ audioBuffer'[ch] = audioBuffer[ch]
                  /\ \/ CallsOf(inflight', ch) = CallsOf(inflight, ch)
                     \/ \E i \in 1..Len(CallsOf(inflight, ch)) :
                           CallsOf(inflight', ch)
                              = SubSeq(CallsOf(inflight, ch), 1, i - 1)
                                  \o SubSeq(CallsOf(inflight, ch), i + 1,
                                            Len(CallsOf(inflight, ch)))]_vars

\* the bytes that arrived while the request of the first window was still
\* pending went into a second request of their own
C31_Witness ==
    \E ch \in Channels :
        /\ last = Step("audioTimer", ch, "submitted")
        /\ Len(inflight) = 2
        /\ CarriesBytes(inflight[1], ch, <<7>>)
        /\ CarriesBytes(inflight[2], ch, <<8, 9>>)

\* C32: on a gemini channel of an established session that is not closing,
\* the completion timer handle is set exactly when the completion buffer is
\* not empty.
C32_TimerArmedIffTextPending ==
    \A ch \in Channels :
        (modelInfo = "gemini" /\ StreamingOpen)
            => (completionTimer[ch] # 0 <=> completionBuffer[ch] # <<>>)

\* a streaming session in which time passes and every timeout that is due
\* fires; nothing obliges the providers or the caller to do anything more
SpecLive ==
    /\ Spec
    /\ WF_vars(Tick)
    /\ WF_vars(\E t \in scheduled : CompletionTimerFires(t))

\* C33: on a streaming channel text never stays pending for ever: once the
\* completion buffer and the live utterance of a channel hold text, a final
\* stt-update of the channel follows with no further input, unless
\* closeSessions is called.
C33_PendingTextIsFinalised ==
    \A ch \in Channels :
        (/\ modelInfo \in StreamProviders /\ StreamingOpen
         /\ Trim(completionBuffer[ch] \o currentUtterance[ch]) # <<>>)
        ~> (Finals(emitted, ch) # <<>> \/ last.op = "close")

\* C34: every final stt-update, whichever path sends it, carries a text
\* that is not empty and that is the text given to the completion callback
\* in the same step.
C34_FinalTextMatchesCallback ==
    \A k \in 1..Len(emitted) :
        (emitted[k].kind = "stt-update" /\ ~emitted[k].isPartial)
        => /\ emitted[k].text # <<>>
           /\ \E j \in 1..Len(emitted) :
                 /\ emitted[j].kind = "complete"
                 /\ emitted[j].speaker = emitted[k].speaker
                 /\ emitted[j].text = emitted[k].text

\* closeSessions has completed and initializeSttSessions was not called since
SessionClosed ==
    /\ initPc = "idle" /\ closePc = "idle"
    /\ modelInfo = "null"
    /\ \A ch \in Channels : ~sttSession[ch].present

\* C35: while the service is closed no step sends an stt-update, partial or
\* final, and none invokes the completion callback.
C35_SilentWhileClosed ==
    SessionClosed
        => \A k \in 1..Len(emitted) : emitted[k].kind \notin {"stt-update", "complete"}

\* C36: with a streaming session, the chunks of a capture subprocess are
\* handed to sendRealtimeInput in the order of their bytes in the
\* subprocess's output, none twice and none skipped: the i-th chunk handed
\* over is the i-th run of CHUNK_SIZE consecutive stream bytes, and a chunk
\* once handed over stays where it is in the order, also when a data event
\* is handled while earlier handlers are suspended in their await.
C36_ChunksSentInStreamOrder ==
    /\ [](modelInfo \in StreamProviders
            => \A p \in ProcIds : \A i \in 1..Len(forwardedChunks[p]) :
                  LET f == forwardedChunks[p][i]
                  IN  /\ f.sent = "sendRealtimeInput"
                      /\ Len(f.chunk) = 1
                      /\ f.chunk[1][1] =
                            IF i = 1 THEN 0 ELSE forwardedChunks[p][i - 1].chunk[1][2]
                      /\ f.chunk[1][2] = f.chunk[1][1] + CHUNK_SIZE)
    /\ [][\A p \in ProcIds :
            /\ Len(forwardedChunks'[p]) >= Len(forwardedChunks[p])
            /\ SubSeq(forwardedChunks'[p], 1, Len(forwardedChunks[p]))
                  = forwardedChunks[p]
            /\ pendingSends[p] > 0
                  => Len(forwardedChunks'[p]) <= Len(forwardedChunks[p]) + 1]_vars

\* a data event was handled while an earlier handler was suspended: two
\* handlers await their send and the two chunks went out in stream order
C36_Witness ==
    \E p \in ProcIds :
        /\ modelInfo \in StreamProviders
        /\ last.op = "captureData"
        /\ pendingSends[p] = 2
        /\ Len(forwardedChunks[p]) = 2
        /\ forwardedChunks[p][2].chunk = << <<CHUNK_SIZE, 2 * CHUNK_SIZE>> >>


====
